---- MODULE Spec2Model ----
(***************************************************************************)
(* A model of the resume/job matching pipeline of AI_based_resume_screener *)
(* (fapp.py, resume_scraper/f.py, scraper.py, resume_processor.py).        *)
(*                                                                         *)
(* Text is modelled as a sequence of lexemes.  A model response uses       *)
(*   "{" "}"   the two brace characters                                    *)
(*   "k"       the lexeme  "match_score":   (an object key and its colon)  *)
(*   "x"       the lexeme  "note":          (any other key and its colon)  *)
(*   "0".."90" a JSON number literal (NumTok)                              *)
(*   "q"       the double quote character                                  *)
(*   "w"       a word of prose (letters, no brace, no quote)               *)
(*   "j"       the word  json                                              *)
(*   "F"       the Markdown fence marker ```                               *)
(*   "n"       a newline: whitespace, and a control character (0x0a)       *)
(*   "_"       a blank: whitespace                                         *)
(*   "d"       the DEL character 0x7f: a control character of the          *)
(*             sanitizer's regular expression, not whitespace, and legal   *)
(*             inside a JSON string                                        *)
(* A parsed JSON value is represented by its canonical lexeme sequence     *)
(* (whitespace between lexemes removed); two texts of the modelled JSON    *)
(* subset parse to equal Python values iff their canonical forms are equal.*)
(***************************************************************************)
EXTENDS Integers, Sequences, FiniteSets, TLC

VARIABLES
    \* ---- Response Sanitizer (fapp.py _clean_json_response) ----
    response,       \* the raw model response handed to the sanitizer
    cleaned,        \* what the sanitizer returned
    san_pc,         \* "idle" | "start" | "done"
    \* ---- Chunker (scraper.py split_dom_content) ----
    content,        \* the text to split, a sequence of characters
    max_chars,      \* the chunk size limit
    chunks,         \* the returned chunks
    chunk_pc,       \* "idle" | "start" | "done"
    \* ---- Ranker (the sort of match_resume_to_jobs and the top-5 cut) ----
    rank_in,        \* matched entries before the sort
    rank_out,       \* the sorted list
    rank_top,       \* its first five entries
    rank_pc,        \* "idle" | "start" | "done"
    \* ---- The pipeline: upload() of fapp.py and main() of resume_scraper/f.py ----
    variant,        \* "fapp" | "f": which of the two entry points runs
    pc,             \* position of the run (see the actions)
    location,       \* the location input, stripped and lower-cased
    keyword,        \* the job preference input, stripped and lower-cased
    uploaded,       \* the resume document exists in the upload folder
    data_copy,      \* the copy save_file writes, __DATA__/file.pdf, exists
    job_listings,   \* what scrape_job_listings returned
    filtered_jobs,  \* what filter_jobs returned
    resume_data,    \* what parse_resume_from_file returned
    idx,            \* index of the next job of the matching loop
    matched_jobs,   \* matched_jobs of match_resume_to_jobs
    called_jobs,    \* the listings the matching model call was issued for, in call order
    match_log,      \* what the model did on each matching call (raised, or its raw text)
    match_raised,   \* match_resume_to_jobs ended by an exception
    results_file,   \* output/top_5_matched_jobs.json
    wrote,          \* this run has written the results file
    flash,          \* category of the message flashed to the user
    shown,          \* the job_matches rendered by the results view
    \* ---- The Filter on its own (filter_jobs) ----
    filt_jobs,      \* the job listings handed to filter_jobs
    filt_loc,       \* its location argument
    filt_kw,        \* its keyword argument
    filt_out,       \* what filter_jobs returned
    filt_again,     \* what filter_jobs returned on its own output, same arguments
    filt_pc,        \* "idle" | "start" | "once" | "twice"
    \* ---- scrape_website (scraper.py), called once per site ----
    sw_pc,          \* "idle" | "ready" | "called" | "created" | "navigated" | "slept"
                    \* | "captured" | "returned"
    sw_calls,       \* number of scrape_website calls started so far
    sw_session,     \* the browser session of the current call: "none" | "open" | "closed"
    sw_left_open,   \* sessions of earlier calls that are still open
    sw_delay,       \* the seconds slept by the current call (0: not slept)
    sw_html,        \* the local html of the current call
    sw_ret,         \* what the current call returned
    \* ---- scrape_job_listings (fapp.py) on its own ----
    sjl_sites,      \* per site of job_sites, what its scrape and its model calls will do
    sjl_site,       \* index of the site the outer loop is at
    sjl_chunk,      \* index of the chunk the inner loop is at (0: not in the inner loop)
    sjl_listings,   \* job_listings
    sjl_log,        \* per processed chunk: its site, its index and what it appended
    sjl_pc,         \* "idle" | "loop" | "chunks" | "returned"
    \* ---- parse_resume_from_file and ats_extractor on their own ----
    ex_saved,       \* save_file returned a path
    ex_text,        \* what extract_text_from_pdf returned: "None" | "" | "text"
    ex_gen,         \* what the model invocation will do
    ex_ats,         \* what ats_extractor returned (or that it raised, or was not called)
    ex_result,      \* what parse_resume_from_file returned (or that it raised)
    ex_pc,          \* "idle" | "start" | "extracting" | "extracted" | "returned"
    \* ---- overlapping upload requests (fapp.py upload, results) ----
    cc_on,          \* the requests are being served
    cc_pc,          \* per request: its position in upload()
    cc_name,        \* per request: the secure_filename of its document
    cc_uploads,     \* upload folder: per file name, whose document it holds (0: no file)
    cc_data,        \* __DATA__/file.pdf: whose document it holds (0: no file)
    cc_text,        \* per request: whose resume text its matching used (0: none yet)
    cc_results,     \* output/top_5_matched_jobs.json: whose result it holds (0: no file)
    cc_shown        \* per request: whose result its results page rendered (0: none)

san_vars == <<response, cleaned, san_pc>>
chunk_vars == <<content, max_chars, chunks, chunk_pc>>
rank_vars == <<rank_in, rank_out, rank_top, rank_pc>>

pipe_vars == <<variant, pc, location, keyword, uploaded, data_copy, job_listings, filtered_jobs,
               resume_data, idx, matched_jobs, called_jobs, match_log, match_raised,
               results_file, wrote, flash, shown>>

filt_vars == <<filt_jobs, filt_loc, filt_kw, filt_out, filt_again, filt_pc>>

web_vars == <<sw_pc, sw_calls, sw_session, sw_left_open, sw_delay, sw_html, sw_ret>>

sjl_vars == <<sjl_sites, sjl_site, sjl_chunk, sjl_listings, sjl_log, sjl_pc>>

ex_vars == <<ex_saved, ex_text, ex_gen, ex_ats, ex_result, ex_pc>>

cc_vars == <<cc_on, cc_pc, cc_name, cc_uploads, cc_data, cc_text, cc_results, cc_shown>>

\* the components added to the four above
aux_vars == <<filt_vars, web_vars, sjl_vars, ex_vars, cc_vars>>

core_vars == <<san_vars, chunk_vars, rank_vars, pipe_vars>>

vars == <<core_vars, aux_vars>>

SanIdle == response = <<>> /\ cleaned = <<>> /\ san_pc = "idle"
ChunkIdle == content = <<>> /\ max_chars = 0 /\ chunks = <<>> /\ chunk_pc = "idle"
RankIdle == rank_in = <<>> /\ rank_out = <<>> /\ rank_top = <<>> /\ rank_pc = "idle"

FiltIdle ==
    /\ filt_jobs = <<>> /\ filt_loc = <<>> /\ filt_kw = <<>>
    /\ filt_out = <<>> /\ filt_again = <<>> /\ filt_pc = "idle"

WebIdle ==
    /\ sw_pc = "idle" /\ sw_calls = 0 /\ sw_session = "none" /\ sw_left_open = 0
    /\ sw_delay = 0 /\ sw_html = <<>> /\ sw_ret = <<>>

SjlIdle ==
    /\ sjl_sites = <<>> /\ sjl_site = 0 /\ sjl_chunk = 0 /\ sjl_listings = <<>>
    /\ sjl_log = <<>> /\ sjl_pc = "idle"

ExIdle ==
    /\ ex_saved = FALSE /\ ex_text = "None" /\ ex_gen = <<>> /\ ex_ats = <<>>
    /\ ex_result = <<>> /\ ex_pc = "idle"

CcIdle ==
    /\ cc_on = FALSE /\ cc_pc = <<>> /\ cc_name = <<>> /\ cc_uploads = <<>> /\ cc_data = 0
    /\ cc_text = <<>> /\ cc_results = 0 /\ cc_shown = <<>>

AuxIdle == FiltIdle /\ WebIdle /\ SjlIdle /\ ExIdle /\ CcIdle

NoFile == [exists |-> FALSE, entries |-> <<>>]
Unparsed == [kind |-> "unparsed", keys |-> {}]

PipeIdle ==
    /\ variant = "fapp" /\ pc = "idle" /\ location = <<>> /\ keyword = <<>>
    /\ uploaded = FALSE /\ data_copy = FALSE /\ job_listings = <<>> /\ filtered_jobs = <<>>
    /\ resume_data = Unparsed /\ idx = 0 /\ matched_jobs = <<>> /\ called_jobs = <<>>
    /\ match_log = <<>>
    /\ match_raised = FALSE /\ results_file = NoFile /\ wrote = FALSE
    /\ flash = "none" /\ shown = <<>>

CoreIdle == SanIdle /\ ChunkIdle /\ RankIdle /\ PipeIdle

\* what each added component leaves alone
filt_rest == <<core_vars, web_vars, sjl_vars, ex_vars, cc_vars>>
web_rest == <<core_vars, filt_vars, sjl_vars, ex_vars, cc_vars>>
sjl_rest == <<core_vars, filt_vars, web_vars, ex_vars, cc_vars>>
ex_rest == <<core_vars, filt_vars, web_vars, sjl_vars, cc_vars>>
cc_rest == <<core_vars, filt_vars, web_vars, sjl_vars, ex_vars>>

FiltRestIdle == CoreIdle /\ WebIdle /\ SjlIdle /\ ExIdle /\ CcIdle
WebRestIdle == CoreIdle /\ FiltIdle /\ SjlIdle /\ ExIdle /\ CcIdle
SjlRestIdle == CoreIdle /\ FiltIdle /\ WebIdle /\ ExIdle /\ CcIdle
ExRestIdle == CoreIdle /\ FiltIdle /\ WebIdle /\ SjlIdle /\ CcIdle
CcRestIdle == CoreIdle /\ FiltIdle /\ WebIdle /\ SjlIdle /\ ExIdle

-----------------------------------------------------------------------------
(* Generic sequence helpers *)

RECURSIVE Reverse(_)
Reverse(s) == IF s = <<>> THEN <<>> ELSE Append(Reverse(Tail(s)), Head(s))

Has(s, t) == \E i \in 1..Len(s) : s[i] = t

\* str.index(t): position of the first t (1-based); 0 stands for ValueError
Index(s, t) == IF Has(s, t) THEN CHOOSE i \in 1..Len(s) : s[i] = t /\ \A h \in 1..(i-1) : s[h] # t
               ELSE 0

\* str.rindex(t): position of the last t (1-based); 0 stands for ValueError
RIndex(s, t) == IF Has(s, t) THEN CHOOSE i \in 1..Len(s) : s[i] = t /\ \A h \in (i+1)..Len(s) : s[h] # t
                ELSE 0

-----------------------------------------------------------------------------
(* json.loads on the modelled JSON subset:                                 *)
(*   value  ::= object | number | string                                   *)
(*   object ::= "{" ws "}"  |  "{" ws key ws value ws "}"                  *)
(*   string ::= q c* q      c any lexeme but q, n (raw control character)  *)
(*                          and the keys k, x (they hold a quote)          *)

NumTok == {"0", "10", "40", "55", "70", "85", "90"}

NumVal(t) == CASE t = "0" -> 0 [] t = "10" -> 10 [] t = "40" -> 40 [] t = "55" -> 55
               [] t = "70" -> 70 [] t = "85" -> 85 [] t = "90" -> 90

Keys == {"k", "x"}

IsSpace(t) == t \in {"n", "_"}

\* the characters of [\x00-\x1f\x7f-\x9f]
IsControl(t) == t \in {"n", "d"}

JSONDecodeError == <<"JSONDecodeError">>

EmptyDict == <<"{", "}">>

RECURSIVE LStrip(_)
LStrip(s) == IF s # <<>> /\ IsSpace(Head(s)) THEN LStrip(Tail(s)) ELSE s

\* str.strip()
Strip(s) == Reverse(LStrip(Reverse(LStrip(s))))

ParseFail == [ok |-> FALSE, val |-> <<>>, rest |-> <<>>]

ParseString(s) ==
    LET body == Tail(s)
        close == Index(body, "q")
    IN  IF close = 0 THEN ParseFail
        ELSE LET chars == SubSeq(body, 1, close - 1)
             IN  IF \E i \in 1..Len(chars) : chars[i] \in Keys \cup {"n"}
                 THEN ParseFail
                 ELSE [ok |-> TRUE,
                       val |-> <<"q">> \o chars \o <<"q">>,
                       rest |-> SubSeq(body, close + 1, Len(body))]

RECURSIVE ParseValue(_)
ParseValue(s) ==
    IF s = <<>> THEN ParseFail
    ELSE IF Head(s) \in NumTok THEN [ok |-> TRUE, val |-> <<Head(s)>>, rest |-> Tail(s)]
    ELSE IF Head(s) = "q" THEN ParseString(s)
    ELSE IF Head(s) = "{" THEN
        LET s1 == LStrip(Tail(s))
        IN  IF s1 = <<>> THEN ParseFail
            ELSE IF Head(s1) = "}" THEN [ok |-> TRUE, val |-> EmptyDict, rest |-> Tail(s1)]
            ELSE IF Head(s1) \in Keys THEN
                LET v  == ParseValue(LStrip(Tail(s1)))
                    s2 == LStrip(v.rest)
                IN  IF v.ok /\ s2 # <<>> /\ Head(s2) = "}"
                    THEN [ok |-> TRUE,
                          val |-> <<"{", Head(s1)>> \o v.val \o <<"}">>,
                          rest |-> Tail(s2)]
                    ELSE ParseFail
            ELSE ParseFail
    ELSE ParseFail

\* json.loads(text): the parsed value, or JSONDecodeError
json_loads(text) ==
    LET r == ParseValue(LStrip(text))
    IN  IF r.ok /\ LStrip(r.rest) = <<>> THEN r.val ELSE JSONDecodeError

\* isinstance(value, dict)
IsMapping(v) == v # <<>> /\ Head(v) = "{"

\* bool(value): {}, 0 and "" are falsy
Truthy(v) == v \notin {EmptyDict, <<"0">>, <<"q", "q">>}

-----------------------------------------------------------------------------
(* The Response Sanitizer *)

\* response.replace("```json", "")
RECURSIVE RemoveFenceJson(_)
RemoveFenceJson(s) ==
    IF s = <<>> THEN <<>>
    ELSE IF Len(s) >= 2 /\ s[1] = "F" /\ s[2] = "j" THEN RemoveFenceJson(Tail(Tail(s)))
    ELSE <<Head(s)>> \o RemoveFenceJson(Tail(s))

\* .replace("```", "")
RemoveFence(s) == SelectSeq(s, LAMBDA t : t # "F")

\* re.sub(r'[\x00-\x1f\x7f-\x9f]', '', json_str)
StripControl(s) == SelectSeq(s, LAMBDA t : ~IsControl(t))

\* faulty variant: the slice ends at the first '}' instead of the last
BraceSlice_first_close(s) == SubSeq(s, Index(s, "{"), Index(s, "}"))

\* response[start:end] with start = index('{'), end = rindex('}') + 1
BraceSlice(s) == SubSeq(s, Index(s, "{"), RIndex(s, "}"))

\* the second attempt of _clean_json_response: slice, strip control characters, parse
FallbackParse(s) ==
    IF ~Has(s, "{") \/ ~Has(s, "}") THEN EmptyDict          \* ValueError of index/rindex
    ELSE LET second == json_loads(StripControl(BraceSlice(s)))
         IN  IF second = JSONDecodeError THEN EmptyDict ELSE second

clean_json_response(raw) ==
    LET text   == Strip(RemoveFence(RemoveFenceJson(raw)))
        direct == json_loads(text)
    IN  IF direct # JSONDecodeError THEN direct ELSE FallbackParse(text)

-----------------------------------------------------------------------------
(* Specification of the sanitizer as a pure function: every response up to *)
(* MaxLen lexemes, and longer ones built as prefix . object . suffix.      *)

MaxLen == 3

Alphabet == {"{", "}", "k", "85", "q", "w", "F", "j", "n", "d"}

RECURSIVE StringsUpTo(_)
StringsUpTo(n) ==
    IF n = 0 THEN {<<>>}
    ELSE LET prev == StringsUpTo(n - 1)
         IN  prev \cup {Append(s, c) : s \in prev, c \in Alphabet}

\* "Here is the result:\n```json\n{\"match_score\": 85}\n```"
ScenarioResponse == <<"w", "n", "F", "j", "n", "{", "k", "85", "}", "n", "F">>

ObjectTexts ==
    { <<"{", "}">>,
      <<"{", "k", "85", "}">>,
      <<"{", "n", "k", "n", "85", "n", "}">>,
      <<"{", "x", "q", "w", "q", "}">>,
      <<"{", "x", "q", "d", "q", "}">>,
      <<"{", "x", "q", "F", "q", "}">>,
      <<"{", "x", "q", "}", "q", "}">>,
      <<"{", "x", "{", "k", "85", "}", "}">> }

Paddings ==
    { <<>>, <<"w">>, <<"w", "n">>, <<"n", "w">>, <<"F", "j", "n">>, <<"n", "F">>,
      <<"w", "n", "F", "j", "n">>, <<"{">>, <<"}">>, <<"w", "}">>, <<"q">>, <<"85">>, <<"d">> }

Responses ==
    StringsUpTo(MaxLen) \cup {ScenarioResponse}
        \cup {p \o o \o s : p \in Paddings, o \in ObjectTexts, s \in Paddings}

SanInit ==
    /\ response \in Responses
    /\ cleaned = <<>>
    /\ san_pc = "start"
    /\ ChunkIdle
    /\ RankIdle
    /\ PipeIdle
    /\ AuxIdle

Sanitize ==
    /\ san_pc = "start"
    /\ cleaned' = clean_json_response(response)
    /\ san_pc' = "done"
    /\ UNCHANGED <<response, chunk_vars, rank_vars, pipe_vars, aux_vars>>

SpecSanitize == SanInit /\ [][Sanitize]_vars

-----------------------------------------------------------------------------
(* Claims about the Response Sanitizer (checked under SpecSanitize) *)

\* the spans of the raw response that are, by themselves, a well-formed JSON object
ObjectSpans(s) ==
    { sp \in (1..Len(s)) \X (1..Len(s)) :
        /\ sp[1] < sp[2]
        /\ s[sp[1]] = "{"
        /\ s[sp[2]] = "}"
        /\ json_loads(SubSeq(s, sp[1], sp[2])) # JSONDecodeError }

Before(s, sp) == SubSeq(s, 1, sp[1] - 1)
After(s, sp) == SubSeq(s, sp[2] + 1, Len(s))

\* lexemes that hold none of { } [ ] "
ProseTok == {"w", "j", "n", "F", "d"} \cup NumTok

IsProse(s) == \A i \in 1..Len(s) : s[i] \in ProseTok

\* C7 (as claimed): for every raw response the sanitizer returns a mapping,
\* the parsed JSON object or the empty mapping.
C7_ReturnsMapping == san_pc = "done" => IsMapping(cleaned)

\* C8 (as claimed): whenever the raw response contains exactly one well-formed
\* JSON object, whatever surrounds it, the sanitizer returns that object's parsed form.
C8_SingleObjectRecovered ==
    san_pc = "done" =>
        \A sp \in ObjectSpans(response) :
            Cardinality(ObjectSpans(response)) = 1
                => cleaned = json_loads(SubSeq(response, sp[1], sp[2]))

\* C8 (amended): a well-formed JSON object that holds no fence marker and no
\* character of 0x7f-0x9f, surrounded only by text without braces, brackets and
\* double quotes (prose, whitespace, code fences), is returned in parsed form.
C8_ObjectInProseRecovered ==
    san_pc = "done" =>
        \A sp \in ObjectSpans(response) :
            LET obj == SubSeq(response, sp[1], sp[2])
            IN  ( /\ IsProse(Before(response, sp))
                  /\ IsProse(After(response, sp))
                  /\ ~Has(obj, "F")
                  /\ ~Has(obj, "d") )
                => cleaned = json_loads(obj)

\* C8 witness: the scenario response (prose, a json fence, the object, a closing
\* fence) has been sanitized to {"match_score": 85}.
C8_Witness ==
    /\ san_pc = "done"
    /\ response = ScenarioResponse
    /\ cleaned = <<"{", "k", "85", "}">>

\* C9 (as claimed): a raw response with no '{' or no '}' sanitizes to the empty mapping.
C9_NoBraceGivesEmpty ==
    (san_pc = "done" /\ (~Has(response, "{") \/ ~Has(response, "}")))
        => cleaned = EmptyDict

-----------------------------------------------------------------------------
(* The Chunker.  Its text is a sequence of characters: "a" a letter, "_" a *)
(* blank, "n" a newline.                                                   *)

\* content.split('\n'): at least one (possibly empty) line
RECURSIVE SplitLines(_)
SplitLines(s) ==
    IF ~Has(s, "n") THEN <<s>>
    ELSE LET i == Index(s, "n")
         IN  <<SubSeq(s, 1, i - 1)>> \o SplitLines(SubSeq(s, i + 1, Len(s)))

\* faulty variant: the test forgets what the current chunk already holds
overflows_ignoring_current(current_chunk, paragraph, limit) == Len(paragraph) + 1 > limit

\* len(current_chunk) + len(paragraph) + 1 > max_chars
Overflows(current_chunk, paragraph, limit) == Len(current_chunk) + Len(paragraph) + 1 > limit

\* the loop over paragraphs and the final append of split_dom_content
RECURSIVE ChunkLoop(_, _, _, _)
ChunkLoop(paragraphs, acc, current_chunk, limit) ==
    IF paragraphs = <<>>
    THEN IF current_chunk # <<>> THEN Append(acc, Strip(current_chunk)) ELSE acc
    ELSE LET paragraph == Head(paragraphs)
         IN  IF Overflows(current_chunk, paragraph, limit)
             THEN ChunkLoop(Tail(paragraphs), Append(acc, Strip(current_chunk)), paragraph, limit)
             ELSE ChunkLoop(Tail(paragraphs), acc, current_chunk \o <<"n">> \o paragraph, limit)

split_dom_content(text, limit) == ChunkLoop(SplitLines(text), <<>>, <<>>, limit)

\* "\n".join(chunks)
RECURSIVE JoinLines(_)
JoinLines(cs) ==
    IF cs = <<>> THEN <<>>
    ELSE IF Len(cs) = 1 THEN cs[1]
    ELSE cs[1] \o <<"n">> \o JoinLines(Tail(cs))

MaxTextLen == 4
MaxChars == 4

TextChars == {"a", "_", "n"}

RECURSIVE TextsUpTo(_)
TextsUpTo(n) ==
    IF n = 0 THEN {<<>>}
    ELSE LET prev == TextsUpTo(n - 1)
         IN  prev \cup {Append(s, c) : s \in prev, c \in TextChars}

ChunkInit ==
    /\ content \in TextsUpTo(MaxTextLen)
    /\ max_chars \in 1..MaxChars
    /\ chunks = <<>>
    /\ chunk_pc = "start"
    /\ SanIdle
    /\ RankIdle
    /\ PipeIdle
    /\ AuxIdle

Split ==
    /\ chunk_pc = "start"
    /\ chunks' = split_dom_content(content, max_chars)
    /\ chunk_pc' = "done"
    /\ UNCHANGED <<content, max_chars, san_vars, rank_vars, pipe_vars, aux_vars>>

SpecChunk == ChunkInit /\ [][Split]_vars

\* C11: no returned chunk is longer than max_chars, except a chunk that is a
\* single line of the text which alone exceeds max_chars.
C11_ChunkWithinLimit ==
    chunk_pc = "done" =>
        \A c \in 1..Len(chunks) :
            \/ Len(chunks[c]) <= max_chars
            \/ /\ ~Has(chunks[c], "n")
               /\ \E l \in 1..Len(SplitLines(content)) :
                     /\ Len(SplitLines(content)[l]) > max_chars
                     /\ chunks[c] = Strip(SplitLines(content)[l])

\* C11 witness: a split returned a single-line chunk over the limit next to a
\* non-empty chunk within the limit.
C11_Witness ==
    /\ chunk_pc = "done"
    /\ \E c \in 1..Len(chunks) : Len(chunks[c]) > max_chars
    /\ \E c \in 1..Len(chunks) : chunks[c] # <<>> /\ Len(chunks[c]) <= max_chars

\* C21: every chunk split_dom_content returns is a non-empty string, for every
\* text (the empty text, lines of blanks only, a first line longer than
\* max_chars), so that no extraction call is issued on an empty chunk.
C21_ChunksNonEmpty ==
    chunk_pc = "done" => \A c \in 1..Len(chunks) : chunks[c] # <<>>

\* C10 (as claimed): joining the returned chunks with newlines, in order,
\* reproduces the original text exactly.
C10_JoinReproducesText == chunk_pc = "done" => JoinLines(chunks) = content

-----------------------------------------------------------------------------
(* Job listings and matched entries.  A job listing is the mapping the     *)
(* extraction step produced; "id" is its position in the scraped list and  *)
(* only tells two listings apart.  A matched entry is {**job,              *)
(* "match_details": ...}; Missing stands for an entry without that key.    *)
(* Job texts are sequences of characters; "K", "E", "S", "P", "C" are      *)
(* upper-case letters, "k", "e", "s", "p", "c", "t" lower-case ones.       *)

Missing == <<"<no match_details>">>

Job(i, loc, title, desc, reqs) ==
    [id |-> i, location |-> loc, job_title |-> title, description |-> desc, requirements |-> reqs]

Entry(job, md) == [job |-> job, match_details |-> md]

\* the placeholder mapping of fapp.py ("match_score": 0, empty lists, a reasoning text)
Placeholder == <<"{", "k", "0", "}">>

\* x.get("match_details", {})
DetailsOf(e) == IF e.match_details = Missing THEN EmptyDict ELSE e.match_details

\* "match_score" in mapping
HasScoreKey(md) == IsMapping(md) /\ Len(md) >= 3 /\ md[2] = "k"

\* the type of x.get("match_details", {}).get("match_score", 0); "AttributeError"
\* when match_details is not a mapping
SortKeyKind(e) ==
    LET md == DetailsOf(e)
    IN  IF ~IsMapping(md) THEN "AttributeError"
        ELSE IF ~HasScoreKey(md) THEN "int"
        ELSE IF md[3] \in NumTok THEN "int"
        ELSE IF md[3] = "q" THEN "str"
        ELSE "dict"

\* the integer sort key (0 when the score is absent)
SortKey(e) ==
    LET md == DetailsOf(e)
    IN  IF HasScoreKey(md) /\ md[3] \in NumTok THEN NumVal(md[3]) ELSE 0

\* the sort raises: a key cannot be computed (AttributeError), or two keys
\* cannot be compared (TypeError: dict with anything, str with int)
SortRaises(entries) ==
    LET kinds == {SortKeyKind(entries[i]) : i \in 1..Len(entries)}
    IN  \/ "AttributeError" \in kinds
        \/ Len(entries) >= 2 /\ ("dict" \in kinds \/ {"str", "int"} \subseteq kinds)

\* insert e after every entry whose key is <= its own (stable, ascending)
RECURSIVE InsertStable(_, _)
InsertStable(sorted, e) ==
    IF sorted = <<>> THEN <<e>>
    ELSE IF SortKey(Head(sorted)) <= SortKey(e)
         THEN <<Head(sorted)>> \o InsertStable(Tail(sorted), e)
         ELSE <<e>> \o sorted

RECURSIVE StableSortAsc(_)
StableSortAsc(entries) ==
    IF entries = <<>> THEN <<>>
    ELSE InsertStable(StableSortAsc(SubSeq(entries, 1, Len(entries) - 1)), entries[Len(entries)])

\* faulty variant: reverse=True forgotten
sort_ascending(entries) == StableSortAsc(entries)

\* faulty variant: sort ascending, then reverse the result (ties come out reversed)
sort_then_reverse(entries) == Reverse(StableSortAsc(entries))

\* matched_jobs.sort(key=..., reverse=True): list.sort reverses the list, sorts
\* it stably in ascending key order and reverses it again
sort_matched(entries) == Reverse(StableSortAsc(Reverse(entries)))

TopMatches == 5

\* matched_jobs[:5]
Top(entries) == SubSeq(entries, 1, IF Len(entries) < TopMatches THEN Len(entries) ELSE TopMatches)

-----------------------------------------------------------------------------
(* Specification of the ranking as a pure function *)

MaxRank == 4

RankDetails == { <<"{", "k", "90", "}">>, <<"{", "k", "40", "}">>, <<"{", "x", "85", "}">>, Placeholder }

PlainJob(i) == Job(i, <<>>, <<>>, <<>>, <<>>)

\* the scores [90,40,90,10,70,0,55] of the ranking scenario
ScenarioScores == <<"90", "40", "90", "10", "70", "0", "55">>

ScenarioEntries == [i \in 1..Len(ScenarioScores) |-> Entry(PlainJob(i), <<"{", "k", ScenarioScores[i], "}">>)]

RankInputs ==
    {ScenarioEntries} \cup
    UNION { { [i \in 1..n |-> Entry(PlainJob(i), f[i])] : f \in [1..n -> RankDetails] } : n \in 0..MaxRank }

RankInit ==
    /\ rank_in \in RankInputs
    /\ rank_out = <<>>
    /\ rank_top = <<>>
    /\ rank_pc = "start"
    /\ SanIdle
    /\ ChunkIdle
    /\ PipeIdle
    /\ AuxIdle

Rank ==
    /\ rank_pc = "start"
    /\ rank_out' = sort_matched(rank_in)
    /\ rank_top' = Top(sort_matched(rank_in))
    /\ rank_pc' = "done"
    /\ UNCHANGED <<rank_in, san_vars, chunk_vars, pipe_vars, aux_vars>>

SpecRank == RankInit /\ [][Rank]_vars

Scores(entries) == [i \in 1..Len(entries) |-> SortKey(entries[i])]

Ids(entries) == [i \in 1..Len(entries) |-> entries[i].job.id]

\* C6: the descending sort is stable (entries of equal score keep their input
\* order), and the scores [90,40,90,10,70,0,55] cut to the top 5 give
\* [90,90,70,55,40] with the first input 90 before the second.
C6_StableRanking ==
    rank_pc = "done" =>
        /\ \A i, j \in 1..Len(rank_out) :
              (i < j /\ SortKey(rank_out[i]) = SortKey(rank_out[j]))
                  => rank_out[i].job.id < rank_out[j].job.id
        /\ {rank_out[i] : i \in 1..Len(rank_out)} = {rank_in[i] : i \in 1..Len(rank_in)}
        /\ Len(rank_out) = Len(rank_in)
        /\ (rank_in = ScenarioEntries =>
              /\ Scores(rank_top) = <<90, 90, 70, 55, 40>>
              /\ Ids(rank_top) = <<1, 3, 5, 7, 2>>)

\* C6 witness: the scenario list has been ranked and cut, the two 90s in input order
C6_Witness ==
    /\ rank_pc = "done"
    /\ rank_in = ScenarioEntries
    /\ Len(rank_top) = 5
    /\ rank_top[1].job.id = 1
    /\ rank_top[2].job.id = 3

-----------------------------------------------------------------------------
(* The Filter *)

\* str.lower() on one character
LowerChar(c) ==
    CASE c = "K" -> "k" [] c = "E" -> "e" [] c = "S" -> "s" [] c = "P" -> "p" [] c = "C" -> "c"
      [] OTHER -> c

\* str.lower()
Lower(s) == [i \in 1..Len(s) |-> LowerChar(s[i])]

\* sub in s
Contains(s, sub) ==
    \E i \in 0..(Len(s) - Len(sub)) : SubSeq(s, i + 1, i + Len(sub)) = sub

FilterCap == 5

\* faulty variant: the job's own fields are compared as written
job_passes_case_sensitive(job, loc, kw) ==
    LET location_match == Contains(job.location, loc) \/ loc = <<>>
        keyword_match  == \/ Contains(job.job_title, kw)
                          \/ Contains(job.description, kw)
                          \/ \E r \in 1..Len(job.requirements) :
                                Contains(job.requirements[r], kw)
    IN  location_match /\ keyword_match

\* location_match and keyword_match of filter_jobs; loc and kw already lower-cased
JobPasses(job, loc, kw) ==
    LET location_match == Contains(Lower(job.location), loc) \/ loc = <<>>
        keyword_match  == \/ Contains(Lower(job.job_title), kw)
                          \/ Contains(Lower(job.description), kw)
                          \/ \E r \in 1..Len(job.requirements) :
                                Contains(Lower(job.requirements[r]), kw)
    IN  location_match /\ keyword_match

\* faulty variant: every passing listing is returned
filter_jobs_uncapped(jobs, loc, kw) ==
    SelectSeq(jobs, LAMBDA job : JobPasses(job, Lower(loc), Lower(kw)))

\* faulty variant: the slice starts one job late
filter_jobs_slice_late(jobs, loc, kw) ==
    LET filtered == SelectSeq(jobs, LAMBDA job : JobPasses(job, Lower(loc), Lower(kw)))
    IN  SubSeq(filtered, 2, IF Len(filtered) < FilterCap + 1 THEN Len(filtered) ELSE FilterCap + 1)

\* filter_jobs(job_listings, location, keyword)
filter_jobs(jobs, loc, kw) ==
    LET filtered == SelectSeq(jobs, LAMBDA job : JobPasses(job, Lower(loc), Lower(kw)))
    IN  SubSeq(filtered, 1, IF Len(filtered) < FilterCap THEN Len(filtered) ELSE FilterCap)

-----------------------------------------------------------------------------
(* Specification of the filter as a pure function: every list of up to     *)
(* MaxFilterJobs listings drawn from FilterKinds, so that more than        *)
(* FilterCap listings can pass.                                            *)

MaxFilterJobs == 7

\* "Kathmandu, Nepal" / "Software Engineer", spelt with the letters of the model
ScenarioLocation == <<"K", "t", ",", "_", "P", "l">>
ScenarioTitle == <<"S", "w", "_", "E", "g">>

\* <<location, job_title, description, requirements>> of a listing
FilterKinds ==
    { <<ScenarioLocation, ScenarioTitle, <<>>, <<>>>>,          \* the scenario's listing
      <<<<"P">>, <<"C">>, <<>>, << <<"c">>, <<"E", "g">> >> >>,  \* keyword in a requirement only
      <<<<"k", "t">>, <<"C">>, <<"e", "g", "C">>, <<>>>> }       \* keyword in the description only

FilterJobLists ==
    UNION { { [i \in 1..n |-> Job(i, f[i][1], f[i][2], f[i][3], f[i][4])] : f \in [1..n -> FilterKinds] }
            : n \in 0..MaxFilterJobs }

\* <<location, keyword>> arguments: "kathmandu" / "engineer" as upload()
\* passes them, the same with capitals, an empty location, and a keyword
\* ("software") that only the scenario's listing holds
FilterQueries ==
    { << <<"k", "t">>, <<"e", "g">> >>, << <<"K", "t">>, <<"E", "g">> >>,
      << <<>>, <<"e", "g">> >>, << <<>>, <<"s", "w">> >> }

FilterInit ==
    /\ filt_jobs \in FilterJobLists
    /\ \E q \in FilterQueries : filt_loc = q[1] /\ filt_kw = q[2]
    /\ filt_out = <<>>
    /\ filt_again = <<>>
    /\ filt_pc = "start"
    /\ FiltRestIdle

\* filtered_jobs = filter_jobs(job_listings, location, keyword)
ApplyFilter ==
    /\ filt_pc = "start"
    /\ filt_out' = filter_jobs(filt_jobs, filt_loc, filt_kw)
    /\ filt_pc' = "once"
    /\ UNCHANGED <<filt_jobs, filt_loc, filt_kw, filt_again, filt_rest>>

\* filter_jobs applied to its own output with the same arguments
ApplyFilterAgain ==
    /\ filt_pc = "once"
    /\ filt_again' = filter_jobs(filt_out, filt_loc, filt_kw)
    /\ filt_pc' = "twice"
    /\ UNCHANGED <<filt_jobs, filt_loc, filt_kw, filt_out, filt_rest>>

FilterNext == ApplyFilter \/ ApplyFilterAgain

SpecFilter == FilterInit /\ [][FilterNext]_vars

-----------------------------------------------------------------------------
(* Claims about the Filter (checked under SpecFilter) *)

\* s and t are equal up to the case of their letters
SameIgnoringCase(s, t) ==
    Len(s) = Len(t) /\ \A i \in 1..Len(s) : LowerChar(s[i]) = LowerChar(t[i])

\* sub occurs in s, case-insensitively; the empty text occurs everywhere
OccursIn(sub, s) ==
    \E i \in 0..(Len(s) - Len(sub)) : SameIgnoringCase(SubSeq(s, i + 1, i + Len(sub)), sub)

\* the two tests of the claim
PassesBoth(job, loc, kw) ==
    /\ loc = <<>> \/ OccursIn(loc, job.location)
    /\ \/ OccursIn(kw, job.job_title)
       \/ OccursIn(kw, job.description)
       \/ \E r \in 1..Len(job.requirements) : OccursIn(kw, job.requirements[r])

\* positions of the listings that pass both tests
PassingAt(jobs, loc, kw) == { i \in 1..Len(jobs) : PassesBoth(jobs[i], loc, kw) }

\* the n-th smallest member of a set of numbers
NthOf(S, n) == CHOOSE x \in S : Cardinality({ y \in S : y < x }) = n - 1

\* the first five (or fewer) passing listings, in their original order
FirstPassing(jobs, loc, kw) ==
    LET P == PassingAt(jobs, loc, kw)
        m == IF Cardinality(P) < 5 THEN Cardinality(P) ELSE 5
    IN  [n \in 1..m |-> jobs[NthOf(P, n)]]

IsScenarioJob(job) == job.location = ScenarioLocation /\ job.job_title = ScenarioTitle

\* C12: filter_jobs returns exactly the first five (or fewer), in original
\* order, of the listings that pass the location test and the keyword test,
\* compared case-insensitively; with location "kathmandu" and keyword
\* "engineer" a "Kathmandu, Nepal" / "Software Engineer" listing among the
\* first five passing ones is retained.
C12_FirstFivePassing ==
    filt_pc \in {"once", "twice"} =>
        /\ filt_out = FirstPassing(filt_jobs, filt_loc, filt_kw)
        /\ (filt_loc = <<"k", "t">> /\ filt_kw = <<"e", "g">>) =>
              \A i \in 1..Len(filt_jobs) :
                  (IsScenarioJob(filt_jobs[i]) /\ i <= 5) =>
                      \E o \in 1..Len(filt_out) : filt_out[o] = filt_jobs[i]

\* C12 witness: more than five listings passed, a failing listing stood
\* between passing ones, and the scenario's listing was retained for
\* "kathmandu" / "engineer".
C12_Witness ==
    /\ filt_pc = "once"
    /\ filt_loc = <<"k", "t">> /\ filt_kw = <<"e", "g">>
    /\ Cardinality(PassingAt(filt_jobs, filt_loc, filt_kw)) > 5
    /\ Len(filt_out) = 5
    /\ \E o \in 1..5 : IsScenarioJob(filt_out[o])
    /\ \E i \in 1..Len(filt_jobs) : i \notin PassingAt(filt_jobs, filt_loc, filt_kw)
                                     /\ i < filt_out[5].id

\* C13: applying filter_jobs to its own output with the same arguments
\* returns that output unchanged.
C13_FilterIdempotent ==
    filt_pc = "twice" => filt_again = filt_out

\* C13 witness: the second application ran on a non-empty output that the
\* first application had cut from a longer list of listings.
C13_Witness ==
    /\ filt_pc = "twice"
    /\ filt_out # <<>>
    /\ Len(filt_out) < Len(filt_jobs)
    /\ filt_again = filt_out

-----------------------------------------------------------------------------
(* The pipeline.  upload() of fapp.py and main() of f.py run the same      *)
(* steps; they differ in the matching loop's failure handling, in what     *)
(* happens when no job passes the filter, and in how an exception ends.    *)
(*   pc: "idle" -> "received" -> "scraped" -> "filtered" -> "matching"     *)
(*       -> "matched" -> "done" (-> "viewed"), or "crashed"                *)

MaxJobs == 3

\* the listings a scrape can yield (location, title, requirements)
ListingKinds ==
    { <<<<"K", "t">>, <<"S", "E">>, <<>>>>,          \* Kathmandu, Software Engineer
      <<<<"P">>, <<"C">>, << <<"E">> >> >> }         \* Pokhara, Chef, one requirement

\* a scrape that yields one listing more than the filter keeps
LongJobList == [i \in 1..(FilterCap + 1) |-> Job(i, <<"K", "t">>, <<"S", "E">>, <<>>, <<>>)]

JobLists ==
    {LongJobList} \cup
    UNION { { [i \in 1..n |-> Job(i, f[i][1], f[i][2], <<>>, f[i][3])] : f \in [1..n -> ListingKinds] }
            : n \in 0..MaxJobs }

LocationInputs == { <<>>, <<"k">> }
KeywordInputs == { <<"e">> }

\* a result set left in the file by an earlier run
OldEntry == Entry(Job(0, <<"K", "t">>, <<"S", "E">>, <<>>, <<>>), <<"{", "k", "55", "}">>)

\* ats_extractor (resume_praser.py 88-107): the parsed profile, or an error
\* mapping when the model call raised or its text did not parse as JSON.
\* "kind" names the cause; "keys" are the keys of the returned mapping.
ats_extractor(model) ==
    IF model = "ok"
    THEN [kind |-> "ok", keys |-> {"Full Name", "Technical Skills"}]
    ELSE [kind |-> "model_error", keys |-> {"error", "raw_response"}]

\* parse_resume_from_file (resume_processor.py 51-76): saved is whether save_file
\* returned a path, text what extract_text_from_pdf returned ("None", "" or "text")
parse_resume_from_file(saved, text, model) ==
    IF ~saved THEN [kind |-> "save_failed", keys |-> {"error"}]
    ELSE IF text \in {"None", ""} THEN [kind |-> "no_text", keys |-> {"error"}]
    ELSE ats_extractor(model)

ResumeOutcomes ==
    { parse_resume_from_file(saved, text, model) :
        saved \in BOOLEAN, text \in {"None", "", "text"}, model \in {"raises", "bad_json", "ok"} }

\* faulty variant: the error check is skipped
no_error_check(data) == FALSE

\* 'error' in resume_data
HasError(data) == "error" \in data.keys

\* what one matching call of the model can do: raise, or return a text
Raise == <<"<raise>">>

MatchOutcomes ==
    { Raise,
      <<"{", "k", "90", "}">>,                 \* {"match_score": 90}
      <<"w", "n", "{", "k", "40", "}">>,       \* prose, then {"match_score": 40}
      <<"w">>,                                 \* prose only
      <<"{", "x", "85", "}">>,                 \* an object without match_score
      <<"85">>,                                \* valid JSON, not an object
      <<"{", "k", "{", "}", "}">> }            \* {"match_score": {}}

PipeInit ==
    /\ variant \in {"fapp", "f"}
    /\ pc = "idle"
    /\ location = <<>>
    /\ keyword = <<>>
    /\ uploaded = FALSE
    /\ data_copy = FALSE
    /\ job_listings = <<>>
    /\ filtered_jobs = <<>>
    /\ resume_data = Unparsed
    /\ idx = 0
    /\ matched_jobs = <<>>
    /\ called_jobs = <<>>
    /\ match_log = <<>>
    /\ match_raised = FALSE
    /\ results_file \in {NoFile, [exists |-> TRUE, entries |-> <<OldEntry>>]}
    /\ wrote = FALSE
    /\ flash = "none"
    /\ shown = <<>>
    /\ SanIdle
    /\ ChunkIdle
    /\ RankIdle
    /\ AuxIdle

\* fapp.py 210-233: validate the upload, save the document, read the form;
\* f.py 179-180: read the two inputs
Receive ==
    /\ UNCHANGED <<san_vars, chunk_vars, rank_vars, aux_vars>>
    /\ pc = "idle"
    /\ \E valid \in BOOLEAN, loc \in LocationInputs, kw \in KeywordInputs :
          IF variant = "fapp" /\ ~valid
          THEN /\ flash' = "error"
               /\ pc' = "done"
               /\ UNCHANGED <<location, keyword, uploaded>>
          ELSE /\ location' = loc
               /\ keyword' = kw
               /\ uploaded' = (variant = "fapp")
               /\ pc' = "received"
               /\ UNCHANGED flash
    /\ UNCHANGED <<variant, data_copy, called_jobs, job_listings, filtered_jobs, resume_data, idx, matched_jobs,
                   match_log, match_raised, results_file, wrote, shown>>

\* fapp.py 242 / f.py 188: scrape_job_listings returns some list of listings
Scrape ==
    /\ UNCHANGED <<san_vars, chunk_vars, rank_vars, aux_vars>>
    /\ pc = "received"
    /\ job_listings' \in JobLists
    /\ pc' = "scraped"
    /\ UNCHANGED <<variant, data_copy, called_jobs, location, keyword, uploaded, filtered_jobs, resume_data, idx,
                   matched_jobs, match_log, match_raised, results_file, wrote, flash, shown>>

\* fapp.py 246-253 / f.py 192-199: filter, and stop when nothing is left
Filter ==
    /\ UNCHANGED <<san_vars, chunk_vars, rank_vars, aux_vars>>
    /\ pc = "scraped"
    /\ filtered_jobs' = filter_jobs(job_listings, location, keyword)
    /\ IF filtered_jobs' # <<>>
       THEN /\ pc' = "filtered"
            /\ UNCHANGED <<uploaded, results_file, wrote, flash>>
       ELSE /\ pc' = "done"
            /\ IF variant = "fapp"
               THEN /\ flash' = "error"
                    /\ uploaded' = FALSE
                    /\ UNCHANGED <<results_file, wrote>>
               ELSE /\ results_file' = [exists |-> TRUE, entries |-> <<>>]
                    /\ wrote' = TRUE
                    /\ UNCHANGED <<uploaded, flash>>
    /\ UNCHANGED <<variant, data_copy, called_jobs, location, keyword, job_listings, resume_data, idx, matched_jobs,
                   match_log, match_raised, shown>>

\* match_resume_to_jobs, fapp.py 97-100 / f.py 88-91: parse the resume, return []
\* on an error mapping
ParseResume ==
    /\ UNCHANGED <<san_vars, chunk_vars, rank_vars, aux_vars>>
    /\ pc = "filtered"
    /\ \E saved \in BOOLEAN, text \in {"None", "", "text"}, model \in {"raises", "bad_json", "ok"} :
          /\ resume_data' = parse_resume_from_file(saved, text, model)
          /\ data_copy' \in (IF saved THEN {TRUE} ELSE {data_copy, TRUE})
    /\ matched_jobs' = <<>>
    /\ match_log' = <<>>
    /\ called_jobs' = <<>>
    /\ IF HasError(resume_data')
       THEN pc' = "matched" /\ idx' = 0
       ELSE pc' = "matching" /\ idx' = 1
    /\ UNCHANGED <<variant, location, keyword, uploaded, job_listings, filtered_jobs,
                   match_raised, results_file, wrote, flash, shown>>

\* the entry one iteration of the loop appends for an outcome of the model call
\* (fapp.py 137-171; f.py 129-144 drops the job when the call raises)
MatchedEntries(v, job, outcome) ==
    IF outcome = Raise
    THEN IF v = "fapp" THEN <<Entry(job, Placeholder)>> ELSE <<>>
    ELSE LET match_data == clean_json_response(outcome)
         IN  IF v = "fapp"
             THEN <<Entry(job, IF Truthy(match_data) THEN match_data ELSE Placeholder)>>
             ELSE <<Entry(job, match_data)>>

\* one iteration of "for job in job_listings"
MatchJob ==
    /\ UNCHANGED <<san_vars, chunk_vars, rank_vars, aux_vars>>
    /\ pc = "matching"
    /\ idx <= Len(filtered_jobs)
    /\ \E outcome \in MatchOutcomes :
          /\ match_log' = Append(match_log, outcome)
          /\ matched_jobs' = matched_jobs \o MatchedEntries(variant, filtered_jobs[idx], outcome)
    /\ called_jobs' = Append(called_jobs, filtered_jobs[idx])
    /\ idx' = idx + 1
    /\ UNCHANGED <<variant, data_copy, pc, location, keyword, uploaded, job_listings, filtered_jobs,
                   resume_data, match_raised, results_file, wrote, flash, shown>>

\* fapp.py 173-177 / f.py 146-150: sort and return.  An exception of the sort
\* leaves match_resume_to_jobs: upload() catches it (fapp.py 275-280), main() does not
FinishMatching ==
    /\ UNCHANGED <<san_vars, chunk_vars, rank_vars, aux_vars>>
    /\ pc = "matching"
    /\ idx > Len(filtered_jobs)
    /\ IF SortRaises(matched_jobs)
       THEN /\ match_raised' = TRUE
            /\ IF variant = "fapp"
               THEN pc' = "done" /\ flash' = "error" /\ uploaded' = FALSE
               ELSE pc' = "crashed" /\ UNCHANGED <<flash, uploaded>>
            /\ UNCHANGED matched_jobs
       ELSE /\ matched_jobs' = sort_matched(matched_jobs)
            /\ pc' = "matched"
            /\ UNCHANGED <<match_raised, flash, uploaded>>
    /\ UNCHANGED <<variant, data_copy, called_jobs, location, keyword, job_listings, filtered_jobs, resume_data, idx,
                   match_log, results_file, wrote, shown>>

\* the list upload()/main() goes on with: "if not matched_jobs: matched_jobs = filtered_jobs"
Chosen(matched, filtered) ==
    IF matched = <<>> THEN [i \in 1..Len(filtered) |-> Entry(filtered[i], Missing)] ELSE matched

\* fapp.py 260-273 / f.py 206-216: remove the upload, fall back to the filtered
\* jobs when nothing was matched, write the top 5, report success
Persist ==
    /\ UNCHANGED <<san_vars, chunk_vars, rank_vars, aux_vars>>
    /\ pc = "matched"
    /\ results_file' = [exists |-> TRUE, entries |-> Top(Chosen(matched_jobs, filtered_jobs))]
    /\ wrote' = TRUE
    /\ uploaded' = FALSE
    /\ flash' = IF variant = "fapp" THEN "success" ELSE flash
    /\ pc' = "done"
    /\ UNCHANGED <<variant, data_copy, called_jobs, location, keyword, job_listings, filtered_jobs, resume_data, idx,
                   matched_jobs, match_log, match_raised, shown>>

\* fapp.py 284-297: the results view renders what the file holds
ViewResults ==
    /\ UNCHANGED <<san_vars, chunk_vars, rank_vars, aux_vars>>
    /\ pc = "done"
    /\ variant = "fapp"
    /\ IF results_file.exists
       THEN shown' = results_file.entries /\ UNCHANGED flash
       ELSE flash' = "error" /\ UNCHANGED shown
    /\ pc' = "viewed"
    /\ UNCHANGED <<variant, data_copy, called_jobs, location, keyword, uploaded, job_listings, filtered_jobs,
                   resume_data, idx, matched_jobs, match_log, match_raised, results_file, wrote>>

Next ==
    \/ Receive
    \/ Scrape
    \/ Filter
    \/ ParseResume
    \/ MatchJob
    \/ FinishMatching
    \/ Persist
    \/ ViewResults

Spec == PipeInit /\ [][Next]_vars

-----------------------------------------------------------------------------
(* Claims about the pipeline (checked under Spec) *)

ElementsOf(seq) == {seq[i] : i \in 1..Len(seq)}

\* the entry carries a match_details mapping that contains match_score
Scored(e) == e.match_details # Missing /\ HasScoreKey(e.match_details)

\* the matching of a job failed: the model call raised, or its response could
\* not be parsed
MatchFailed(outcome) == outcome = Raise \/ clean_json_response(outcome) = EmptyDict

ParseFailureKinds == {"save_failed", "no_text", "model_error"}

\* C1 (as claimed): every entry that is ranked, written to the results file or
\* shown carries match_details with match_score, and a job whose matching failed
\* is kept with match_score 0.
C1_EveryEntryScored ==
    /\ pc = "matched" => \A e \in ElementsOf(matched_jobs) : Scored(e)
    /\ wrote => \A e \in ElementsOf(results_file.entries) : Scored(e)
    /\ \A e \in ElementsOf(shown) : Scored(e)
    /\ pc = "matched" =>
          \A i \in 1..Len(match_log) :
              MatchFailed(match_log[i]) =>
                  \E e \in ElementsOf(matched_jobs) :
                      e.job = filtered_jobs[i] /\ Scored(e) /\ SortKey(e) = 0

\* C2 (as claimed): with a resume that parsed, match_resume_to_jobs never raises
\* and returns exactly one entry per input job, whatever the model calls did.
C2_OneEntryPerJob ==
    resume_data.kind = "ok" =>
        /\ ~match_raised
        /\ pc = "matched" =>
              /\ Len(matched_jobs) = Len(filtered_jobs)
              /\ {e.job : e \in ElementsOf(matched_jobs)} = ElementsOf(filtered_jobs)

\* C3 (as claimed): a request whose resume parsing failed ends with a user-visible
\* error and has written no new result set.
C3_ParseFailureEndsInError ==
    (pc = "done" /\ resume_data.kind \in ParseFailureKinds) =>
        /\ ~wrote
        /\ variant = "fapp" => flash = "error"

\* C4: if resume extraction reports an error, match_resume_to_jobs returns the
\* empty list and issues no matching model call, whatever the job list.
C4_FailClosed ==
    resume_data.kind \in ParseFailureKinds =>
        /\ pc # "matching"
        /\ matched_jobs = <<>>
        /\ match_log = <<>>

\* C4 witness: match_resume_to_jobs has returned [] for two jobs after a model
\* error of the resume extraction, without a matching call.
C4_Witness ==
    /\ pc = "matched"
    /\ resume_data.kind = "model_error"
    /\ Len(filtered_jobs) >= 2
    /\ matched_jobs = <<>>
    /\ match_log = <<>>

\* C5: the list match_resume_to_jobs returns is non-increasing in match_score,
\* an entry without a score counting as 0.
C5_NonIncreasingScores ==
    pc = "matched" =>
        \A i, j \in 1..Len(matched_jobs) :
            i < j => SortKey(matched_jobs[i]) >= SortKey(matched_jobs[j])

\* C5 witness: three matched jobs were returned with the last input job first.
C5_Witness ==
    /\ pc = "matched"
    /\ Len(matched_jobs) = 3
    /\ matched_jobs[1].job.id > matched_jobs[3].job.id
    /\ SortKey(matched_jobs[1]) > SortKey(matched_jobs[2])
    /\ SortKey(matched_jobs[2]) > SortKey(matched_jobs[3])

\* C15: when an upload request that stored the resume document has completed,
\* no stored copy of the document exists any more: neither the file in the
\* upload folder nor the copy save_file wrote, on the success path and on
\* every failure path.
C15_StoredResumeRemoved ==
    (variant = "fapp" /\ pc \in {"done", "viewed"}) => (~uploaded /\ ~data_copy)

\* the run is past the filtering step
AfterFiltering == pc \in {"filtered", "matching", "matched", "done", "viewed", "crashed"}

\* C16: matching model calls are issued only after filtering and only for
\* listings that passed the filter, at most five per run; when no listing
\* passes, the run has stopped with its "no matches" outcome (the flashed
\* error of upload(), the empty result main() saves) without parsing the
\* resume and without a matching call.
C16_MatchingOnlyAfterFilter ==
    /\ Len(called_jobs) <= 5
    /\ called_jobs # <<>> => AfterFiltering
    /\ \A c \in 1..Len(called_jobs) :
          \E j \in 1..Len(job_listings) :
              job_listings[j] = called_jobs[c] /\ PassesBoth(job_listings[j], location, keyword)
    /\ (pc \notin {"idle", "received", "scraped"} /\ filtered_jobs = <<>>) =>
          /\ pc \in {"done", "viewed"}
          /\ resume_data = Unparsed
          /\ called_jobs = <<>> /\ match_log = <<>> /\ matched_jobs = <<>>
          /\ (variant = "fapp" /\ pc = "done") => flash = "error"
          /\ variant = "f" => (results_file.exists /\ results_file.entries = <<>>)

\* C16 witness: six listings passed the tests, the filter kept five, and the
\* run ended after exactly five matching calls.
C16_Witness ==
    /\ pc = "done"
    /\ Len(job_listings) > 5
    /\ \A j \in 1..Len(job_listings) : PassesBoth(job_listings[j], location, keyword)
    /\ Len(called_jobs) = 5
    /\ wrote

\* a pipeline run (one that got past the validation of its inputs) completes
RunCompletes == pc \in {"scraped", "matching", "matched"} /\ pc' = "done"

\* C18: when a pipeline run completes, what the results view can read from
\* the results file is that run's ranked list cut to at most five entries
\* (nothing, for a run without a ranked list) and no entry of an earlier run.
C18_FileHoldsOnlyThisRun ==
    [][RunCompletes =>
          /\ results_file'.entries =
                (IF filtered_jobs' = <<>> \/ match_raised' THEN <<>>
                 ELSE Top(Chosen(matched_jobs', filtered_jobs')))
          /\ \A e \in 1..Len(results_file'.entries) : results_file'.entries[e] # OldEntry]_vars

-----------------------------------------------------------------------------
(* scrape_website (scraper.py 37-50).  One call is                         *)
(*   try: driver = create_webdriver(); driver.get(url); time.sleep(..);    *)
(*        html = driver.page_source; driver.quit(); return html            *)
(*   except Exception: log; return ""                                      *)
(* Each statement of the try block either completes or raises; a raise     *)
(* runs the handler, which returns "" at once.  The caller scrapes one     *)
(* site after the other (fapp.py 35-37).                                   *)

MaxCalls == 3

\* the page sources a browser can hand back: an empty page, or a page with text
PageSources == { <<>>, <<"a">> }

Delays == 2..4

SpecWebInit ==
    /\ sw_pc = "ready"
    /\ sw_calls = 0
    /\ sw_session = "none"
    /\ sw_left_open = 0
    /\ sw_delay = 0
    /\ sw_html = <<>>
    /\ sw_ret = <<>>
    /\ WebRestIdle

\* the except branch of scrape_website: log the error and return ""
ReturnFromHandler ==
    /\ sw_ret' = <<>>
    /\ sw_pc' = "returned"

\* html = scrape_website(site) is called for the next site; a session the
\* previous call left open stays open
CallScrapeWebsite ==
    /\ sw_pc \in {"ready", "returned"}
    /\ sw_calls < MaxCalls
    /\ sw_calls' = sw_calls + 1
    /\ sw_left_open' = sw_left_open + (IF sw_session = "open" THEN 1 ELSE 0)
    /\ sw_session' = "none"
    /\ sw_delay' = 0
    /\ sw_html' = <<>>
    /\ sw_ret' = <<>>
    /\ sw_pc' = "called"
    /\ UNCHANGED web_rest

\* driver = create_webdriver(): launches a browser session, or raises
CreateDriver ==
    /\ sw_pc = "called"
    /\ \E raised \in BOOLEAN :
          IF raised
          THEN ReturnFromHandler /\ UNCHANGED sw_session
          ELSE sw_session' = "open" /\ sw_pc' = "created" /\ UNCHANGED sw_ret
    /\ UNCHANGED <<sw_calls, sw_left_open, sw_delay, sw_html, web_rest>>

\* driver.get(url): navigation completes, or raises
Navigate ==
    /\ sw_pc = "created"
    /\ \E raised \in BOOLEAN :
          IF raised
          THEN ReturnFromHandler
          ELSE sw_pc' = "navigated" /\ UNCHANGED sw_ret
    /\ UNCHANGED <<sw_calls, sw_session, sw_left_open, sw_delay, sw_html, web_rest>>

\* time.sleep(random.uniform(2, 4))
Sleep ==
    /\ sw_pc = "navigated"
    /\ \E d \in Delays : sw_delay' = d
    /\ sw_pc' = "slept"
    /\ UNCHANGED <<sw_calls, sw_session, sw_left_open, sw_html, sw_ret, web_rest>>

\* html = driver.page_source: the rendered page, or raises
Capture ==
    /\ sw_pc = "slept"
    /\ \E raised \in BOOLEAN, page \in PageSources :
          IF raised
          THEN ReturnFromHandler /\ UNCHANGED sw_html
          ELSE sw_html' = page /\ sw_pc' = "captured" /\ UNCHANGED sw_ret
    /\ UNCHANGED <<sw_calls, sw_session, sw_left_open, sw_delay, web_rest>>

\* driver.quit(); return html.  When quit raises, the handler returns "" and
\* the session may or may not have ended.
QuitAndReturn ==
    /\ sw_pc = "captured"
    /\ \E raised \in BOOLEAN, ended \in BOOLEAN :
          IF raised
          THEN ReturnFromHandler /\ sw_session' = (IF ended THEN "closed" ELSE "open")
          ELSE sw_session' = "closed" /\ sw_ret' = sw_html /\ sw_pc' = "returned"
    /\ UNCHANGED <<sw_calls, sw_left_open, sw_delay, sw_html, web_rest>>

WebNext ==
    \/ CallScrapeWebsite
    \/ CreateDriver
    \/ Navigate
    \/ Sleep
    \/ Capture
    \/ QuitAndReturn

SpecWeb == SpecWebInit /\ [][WebNext]_vars

-----------------------------------------------------------------------------
(* Claims about scrape_website (checked under SpecWeb) *)

\* C14: when a scrape_website call returns, the browser session it launched
\* has been torn down, on the success path and on every failure path, and no
\* session of an earlier call is still open.
C14_SessionTornDown ==
    sw_pc = "returned" => (sw_session # "open" /\ sw_left_open = 0)

-----------------------------------------------------------------------------
(* scrape_job_listings and _extract_job_details (fapp.py 33-76).  A site   *)
(* of job_sites is described by what happens when it is scraped:           *)
(*   EmptyPage   scrape_website returned "" (its own handler caught the    *)
(*               failure), the loop continues with the next site           *)
(*   BrokenPage  clean_body_content or split_dom_content raised            *)
(*   otherwise   the sequence of the model's reactions to the chunks of    *)
(*               the page, one per chunk: Raise or a response text         *)

MaxSites == 2

EmptyPage == <<"<empty>">>
BrokenPage == <<"<broken>">>

\* what the model does with one chunk
ChunkOutcomes ==
    { Raise,
      <<"w">>,                     \* prose: sanitizes to {}
      <<"{", "x", "85", "}">>,     \* a listing
      <<"{", "k", "90", "}">>,     \* another listing
      <<"0">> }                    \* valid JSON that is no mapping and is falsy

\* pages of one chunk and of two chunks
Pages == { <<o>> : o \in ChunkOutcomes } \cup { <<o, p>> : o \in ChunkOutcomes, p \in ChunkOutcomes }

SiteKinds == { <<EmptyPage>>, <<BrokenPage>> } \cup Pages

SiteLists == UNION { [1..n -> SiteKinds] : n \in 0..MaxSites }

NoneValue == <<"<None>">>

\* faulty variant: the call of the model is not guarded
extract_job_details_unguarded(outcome) ==
    IF outcome = Raise THEN Raise ELSE clean_json_response(outcome)

\* _extract_job_details: the sanitized response, None when anything raised
extract_job_details(outcome) ==
    IF outcome = Raise THEN NoneValue ELSE clean_json_response(outcome)

\* "if job_listing:"
IsKept(job_listing) == job_listing # NoneValue /\ Truthy(job_listing)

SjlInit ==
    /\ sjl_sites \in SiteLists
    /\ sjl_site = 1
    /\ sjl_chunk = 0
    /\ sjl_listings = <<>>
    /\ sjl_log = <<>>
    /\ sjl_pc = "loop"
    /\ SjlRestIdle

\* one pass through lines 36-42 for the next site: scrape, clean and split
ScrapeSite ==
    /\ sjl_pc = "loop"
    /\ sjl_site <= Len(sjl_sites)
    /\ IF sjl_sites[sjl_site] \in { <<EmptyPage>>, <<BrokenPage>> }
       THEN /\ sjl_site' = sjl_site + 1
            /\ UNCHANGED <<sjl_chunk, sjl_pc>>
       ELSE /\ sjl_chunk' = 1
            /\ sjl_pc' = "chunks"
            /\ UNCHANGED sjl_site
    /\ UNCHANGED <<sjl_sites, sjl_listings, sjl_log, sjl_rest>>

\* one iteration of "for content in split_contents" (lines 43-46); an
\* exception that leaves _extract_job_details ends the site (lines 47-48)
ExtractChunk ==
    /\ sjl_pc = "chunks"
    /\ LET page == sjl_sites[sjl_site]
           job_listing == extract_job_details(page[sjl_chunk])
           added == IF IsKept(job_listing) THEN <<job_listing>> ELSE <<>>
       IN  IF job_listing = Raise
           THEN /\ sjl_site' = sjl_site + 1
                /\ sjl_chunk' = 0
                /\ sjl_pc' = "loop"
                /\ UNCHANGED <<sjl_listings, sjl_log>>
           ELSE /\ sjl_listings' = sjl_listings \o added
                /\ sjl_log' = Append(sjl_log, [site |-> sjl_site, chunk |-> sjl_chunk, added |-> added])
                /\ IF sjl_chunk < Len(page)
                   THEN sjl_chunk' = sjl_chunk + 1 /\ UNCHANGED <<sjl_site, sjl_pc>>
                   ELSE sjl_chunk' = 0 /\ sjl_site' = sjl_site + 1 /\ sjl_pc' = "loop"
    /\ UNCHANGED <<sjl_sites, sjl_rest>>

\* line 49: return job_listings
ReturnListings ==
    /\ sjl_pc = "loop"
    /\ sjl_site > Len(sjl_sites)
    /\ sjl_pc' = "returned"
    /\ UNCHANGED <<sjl_sites, sjl_site, sjl_chunk, sjl_listings, sjl_log, sjl_rest>>

SjlNext ==
    \/ ScrapeSite
    \/ ExtractChunk
    \/ ReturnListings

SpecListings == SjlInit /\ [][SjlNext]_vars

-----------------------------------------------------------------------------
(* Claims about scrape_job_listings (checked under SpecListings) *)

IsPage(site) == site \notin { <<EmptyPage>>, <<BrokenPage>> }

\* the <<site, chunk>> pairs of the input, in URL order then chunk order
RECURSIVE AllChunksFrom(_, _)
AllChunksFrom(sites, s) ==
    IF s > Len(sites) THEN <<>>
    ELSE (IF IsPage(sites[s]) THEN [c \in 1..Len(sites[s]) |-> <<s, c>>] ELSE <<>>)
         \o AllChunksFrom(sites, s + 1)

RECURSIVE Concat(_)
Concat(ss) == IF ss = <<>> THEN <<>> ELSE Head(ss) \o Concat(Tail(ss))

\* C17: scrape_job_listings returns for every input; by then every chunk of
\* every scraped site has been processed, in URL order then chunk order; a
\* chunk whose model call raised or whose response sanitized to the empty
\* mapping added nothing, a chunk whose response sanitized to a non-empty
\* mapping added that mapping, and the returned list is what the chunks
\* added, in that order (a site whose scrape failed has no chunk).
C17_EveryChunkProcessed ==
    /\ sjl_pc \in {"idle", "loop", "chunks", "returned"}
    /\ sjl_pc = "returned" =>
          /\ [i \in 1..Len(sjl_log) |-> <<sjl_log[i].site, sjl_log[i].chunk>>]
                = AllChunksFrom(sjl_sites, 1)
          /\ \A i \in 1..Len(sjl_log) :
                LET outcome == sjl_sites[sjl_log[i].site][sjl_log[i].chunk]
                IN  /\ outcome = Raise => sjl_log[i].added = <<>>
                    /\ outcome # Raise =>
                          LET value == clean_json_response(outcome)
                          IN  /\ value = EmptyDict => sjl_log[i].added = <<>>
                              /\ (IsMapping(value) /\ value # EmptyDict) =>
                                    sjl_log[i].added = <<value>>
          /\ sjl_listings = Concat([i \in 1..Len(sjl_log) |-> sjl_log[i].added])

\* C17 witness: a call returned a listing of the second site after the first
\* site's scrape failed, and a listing of a chunk that followed a chunk whose
\* model call raised.
C17_Witness ==
    /\ sjl_pc = "returned"
    /\ Len(sjl_sites) = 2
    /\ ~IsPage(sjl_sites[1])
    /\ Len(sjl_sites[2]) = 2 /\ sjl_sites[2][1] = Raise
    /\ sjl_listings = <<sjl_sites[2][2]>>
    /\ IsMapping(sjl_sites[2][2])

-----------------------------------------------------------------------------
(* ats_extractor (resume_praser.py 34-107) and parse_resume_from_file      *)
(* (resume_processor.py 51-76) in detail.  Values are canonical lexeme     *)
(* sequences as above; an error mapping is "{" followed by its keys (and,  *)
(* for raw_response, its value) and "}".                                   *)

\* model.generate_content raised: there is no response
GenRaises == <<"<generate_content raises>">>

\* generate_content returned a response whose .text accessor raises
TextRaises == <<"<response.text raises>">>

\* the texts a response can carry
ResumeTexts ==
    { <<"{", "x", "85", "}">>,                              \* a JSON object
      <<"F", "j", "n", "{", "x", "85", "}", "n", "F">>,     \* the object in a Markdown fence
      <<"w", "_", "{", "x", "85", "}">>,                    \* prose, then the object
      <<"{", "}">>,                                         \* the empty object
      <<"w">>,                                              \* prose only
      <<>>,                                                 \* no text
      <<"}", "_", "{">>,                                    \* braces in the wrong order
      <<"q", "w", "q">>,                                    \* a JSON string
      <<"85">> }                                            \* a JSON number

GenOutcomes == { GenRaises, TextRaises } \cup ResumeTexts

\* clean_json_response of resume_praser.py (14-32): returns a text
praser_clean_json_response(text) ==
    LET t == RemoveFence(RemoveFenceJson(text))
    IN  IF ~Has(t, "{") \/ ~Has(t, "}") THEN t                  \* ValueError: return text
        ELSE StripControl(BraceSlice(t))

\* {"error": str(e), "raw_response": raw}
ErrorMapping(raw) == <<"{", "error", "raw_response">> \o raw \o <<"}">>

NoneRaw == <<"None">>

\* ats_extractor: the parsed value, the error mapping of the handler, or Raise
\* when the handler itself raises (it reads response.text again, line 106)
ats_extractor_detail(gen) ==
    IF gen = GenRaises THEN ErrorMapping(NoneRaw)
    ELSE IF gen = TextRaises THEN Raise
    ELSE LET parsed_data == json_loads(praser_clean_json_response(gen))
         IN  IF parsed_data = JSONDecodeError THEN ErrorMapping(gen) ELSE parsed_data

\* "error" in prased_data: a key test on a mapping, a substring test on a
\* string (no string of the model spells "error"), TypeError on a number
ErrorIn(prased_data) ==
    IF IsMapping(prased_data) THEN (IF Has(prased_data, "error") THEN "True" ELSE "False")
    ELSE IF Head(prased_data) = "q" THEN "False"
    ELSE "TypeError"

SaveFailed == <<"{", "error", "}">>
NoText == <<"{", "error", "}">>
NotCalled == <<"<not called>">>

ExInit ==
    /\ ex_saved \in BOOLEAN
    /\ ex_text \in {"None", "", "text"}
    /\ ex_gen \in GenOutcomes
    /\ ex_ats = NotCalled
    /\ ex_result = <<>>
    /\ ex_pc = "start"
    /\ ExRestIdle

\* resume_processor.py 54-66: save the file and read its text
SaveAndRead ==
    /\ ex_pc = "start"
    /\ IF ~ex_saved THEN ex_result' = SaveFailed /\ ex_pc' = "returned"
       ELSE IF ex_text \in {"None", ""} THEN ex_result' = NoText /\ ex_pc' = "returned"
       ELSE ex_pc' = "extracting" /\ UNCHANGED ex_result
    /\ UNCHANGED <<ex_saved, ex_text, ex_gen, ex_ats, ex_rest>>

\* resume_processor.py 68: prased_data = ats_extractor(resume_data); an
\* exception of ats_extractor leaves parse_resume_from_file too
Extract ==
    /\ ex_pc = "extracting"
    /\ ex_ats' = ats_extractor_detail(ex_gen)
    /\ IF ex_ats' = Raise
       THEN ex_result' = Raise /\ ex_pc' = "returned"
       ELSE ex_pc' = "extracted" /\ UNCHANGED ex_result
    /\ UNCHANGED <<ex_saved, ex_text, ex_gen, ex_rest>>

\* resume_processor.py 70-76: test for "error" and return prased_data
ReturnParsed ==
    /\ ex_pc = "extracted"
    /\ ex_result' = (IF ErrorIn(ex_ats) = "TypeError" THEN Raise ELSE ex_ats)
    /\ ex_pc' = "returned"
    /\ UNCHANGED <<ex_saved, ex_text, ex_gen, ex_ats, ex_rest>>

ExNext ==
    \/ SaveAndRead
    \/ Extract
    \/ ReturnParsed

SpecExtract == ExInit /\ [][ExNext]_vars

-----------------------------------------------------------------------------
(* Claims about the resume extraction (checked under SpecExtract) *)

\* the model invocation or the parsing of its response failed
ExtractionFailed(gen) ==
    \/ gen \in {GenRaises, TextRaises}
    \/ json_loads(praser_clean_json_response(gen)) = JSONDecodeError

HasKey(v, key) == IsMapping(v) /\ Has(v, key)

\* C19: ats_extractor never raises; when the model invocation or the parsing
\* of its response failed it returns a mapping with the keys "error" and
\* "raw_response", the latter holding the model's text when a response was
\* obtained and nothing otherwise; and parse_resume_from_file returns a
\* mapping that has the key "error" exactly when saving, text extraction or
\* model extraction failed.
C19_ExtractionNeverRaises ==
    /\ ex_ats # Raise
    /\ (ex_ats # NotCalled /\ ExtractionFailed(ex_gen)) =>
          /\ HasKey(ex_ats, "error") /\ HasKey(ex_ats, "raw_response")
          /\ ex_ats = ErrorMapping(IF ex_gen \in {GenRaises, TextRaises} THEN NoneRaw ELSE ex_gen)
    /\ ex_pc = "returned" =>
          /\ ex_result # Raise
          /\ IsMapping(ex_result)
          /\ HasKey(ex_result, "error") <=>
                (~ex_saved \/ ex_text \in {"None", ""} \/ ExtractionFailed(ex_gen))

-----------------------------------------------------------------------------
(* Two upload requests served at the same time (fapp.py 208-297).  Each    *)
(* request runs the statements of upload() in order; the steps of the two  *)
(* requests interleave freely.  The files they touch are shared: the       *)
(* upload folder (one file per file name), the copy __DATA__/file.pdf that *)
(* save_file writes, and output/top_5_matched_jobs.json.  A file is        *)
(* described by the request whose document or result it holds.             *)
(*   cc_pc: "new" -> "saved" -> "filtered" -> "copied" -> "parsed"         *)
(*          -> "removed" -> "written" -> "viewed", or "failed"             *)

Requests == {1, 2}

\* the names two uploaded documents can have after secure_filename
FileNames == {"cv.pdf", "resume.pdf"}

CcInit ==
    /\ cc_on = TRUE
    /\ cc_pc = [r \in Requests |-> "new"]
    /\ cc_name \in [Requests -> FileNames]
    /\ cc_uploads = [f \in FileNames |-> 0]
    /\ cc_data = 0
    /\ cc_text = [r \in Requests |-> 0]
    /\ cc_results = 0
    /\ cc_shown = [r \in Requests |-> 0]
    /\ CcRestIdle

\* fapp.py 226-228: file.save(filepath)
SaveUpload(r) ==
    /\ cc_pc[r] = "new"
    /\ cc_uploads' = [cc_uploads EXCEPT ![cc_name[r]] = r]
    /\ cc_pc' = [cc_pc EXCEPT ![r] = "saved"]
    /\ UNCHANGED <<cc_on, cc_name, cc_data, cc_text, cc_results, cc_shown, cc_rest>>

\* the except branch of upload() (275-280): remove the upload if it exists
HandlerRemoves(r) ==
    /\ cc_uploads' = [cc_uploads EXCEPT ![cc_name[r]] = 0]
    /\ cc_pc' = [cc_pc EXCEPT ![r] = "failed"]

\* fapp.py 242-253: scrape and filter; with no job left, os.remove(filepath)
\* (FileNotFoundError goes to the except branch) and return
ScrapeAndFilter(r) ==
    /\ cc_pc[r] = "saved"
    /\ \E any_job \in BOOLEAN :
          IF any_job
          THEN cc_pc' = [cc_pc EXCEPT ![r] = "filtered"] /\ UNCHANGED cc_uploads
          ELSE HandlerRemoves(r)
    /\ UNCHANGED <<cc_on, cc_name, cc_data, cc_text, cc_results, cc_shown, cc_rest>>

\* fapp.py 255 and resume_processor.py 54: open(filepath, 'rb') and save_file,
\* which copies what the opened file holds to __DATA__/file.pdf
OpenAndCopy(r) ==
    /\ cc_pc[r] = "filtered"
    /\ IF cc_uploads[cc_name[r]] = 0
       THEN cc_pc' = [cc_pc EXCEPT ![r] = "failed"] /\ UNCHANGED cc_data
       ELSE cc_data' = cc_uploads[cc_name[r]] /\ cc_pc' = [cc_pc EXCEPT ![r] = "copied"]
    /\ UNCHANGED <<cc_on, cc_name, cc_uploads, cc_text, cc_results, cc_shown, cc_rest>>

\* resume_processor.py 59-68 and fapp.py 135-176: extract_text_from_pdf reads
\* __DATA__/file.pdf; the profile and the matching are computed from that text
ParseAndMatch(r) ==
    /\ cc_pc[r] = "copied"
    /\ cc_text' = [cc_text EXCEPT ![r] = cc_data]
    /\ cc_pc' = [cc_pc EXCEPT ![r] = "parsed"]
    /\ UNCHANGED <<cc_on, cc_name, cc_uploads, cc_data, cc_results, cc_shown, cc_rest>>

\* fapp.py 260: os.remove(filepath); FileNotFoundError goes to the except branch
RemoveUpload(r) ==
    /\ cc_pc[r] = "parsed"
    /\ cc_uploads' = [cc_uploads EXCEPT ![cc_name[r]] = 0]
    /\ cc_pc' = [cc_pc EXCEPT ![r] = IF cc_uploads[cc_name[r]] = 0 THEN "failed" ELSE "removed"]
    /\ UNCHANGED <<cc_on, cc_name, cc_data, cc_text, cc_results, cc_shown, cc_rest>>

\* fapp.py 267-273: write the top matches and redirect to the results page
WriteResults(r) ==
    /\ cc_pc[r] = "removed"
    /\ cc_results' = cc_text[r]
    /\ cc_pc' = [cc_pc EXCEPT ![r] = "written"]
    /\ UNCHANGED <<cc_on, cc_name, cc_uploads, cc_data, cc_text, cc_shown, cc_rest>>

\* fapp.py 284-290: results() renders what the file holds
ShowResults(r) ==
    /\ cc_pc[r] = "written"
    /\ cc_shown' = [cc_shown EXCEPT ![r] = cc_results]
    /\ cc_pc' = [cc_pc EXCEPT ![r] = "viewed"]
    /\ UNCHANGED <<cc_on, cc_name, cc_uploads, cc_data, cc_text, cc_results, cc_rest>>

CcSave == \E r \in Requests : SaveUpload(r)
CcFilter == \E r \in Requests : ScrapeAndFilter(r)
CcCopy == \E r \in Requests : OpenAndCopy(r)
CcParse == \E r \in Requests : ParseAndMatch(r)
CcRemove == \E r \in Requests : RemoveUpload(r)
CcWrite == \E r \in Requests : WriteResults(r)
CcShow == \E r \in Requests : ShowResults(r)

CcNext ==
    \/ CcSave
    \/ CcFilter
    \/ CcCopy
    \/ CcParse
    \/ CcRemove
    \/ CcWrite
    \/ CcShow

SpecConcurrent == CcInit /\ [][CcNext]_vars

-----------------------------------------------------------------------------
(* Claims about overlapping requests (checked under SpecConcurrent) *)

\* C20: whatever the interleaving of two upload requests, each request's
\* matching uses the text of its own resume, its uploaded file stays in place
\* and its own from the save to the request's own removal, and the result it
\* persists and then displays is its own.
C20_RequestsIsolated ==
    cc_on =>
        \A r \in Requests :
            /\ cc_text[r] \in {0, r}
            /\ cc_pc[r] \in {"saved", "filtered", "copied", "parsed"} =>
                  cc_uploads[cc_name[r]] = r
            /\ cc_pc[r] = "written" => cc_results = r
            /\ cc_pc[r] = "viewed" => cc_shown[r] = r

=============================================================================
